---- MODULE Spec2Model ----
(***************************************************************************)
(* Model of the attack-orchestration core of Model_Inversion_Attack_Box:   *)
(*   utils/batch.py      batch_apply, _gather            (Batch Runner)    *)
(*   utils/io.py         print_as_yaml, print_split_line                   *)
(*   attack/base.py      ImageClassifierAttackConfig / Attacker            *)
(*   attack/losses.py    ComposeImageLoss                                  *)
(*   attack/PLGMI_high/gan_trainer.py   the top-n selection and its cache  *)
(*                                                                         *)
(* Tensors are sequences of rows, a row is a small natural number.  A      *)
(* Python call either returns a value or raises; every modelled call       *)
(* yields a record whose field err is "ok" or the name of the exception.   *)
(***************************************************************************)
EXTENDS Integers, Sequences, FiniteSets, TLC

VARIABLES ba, cf, self, call, ls, gan

vars == <<ba, cf, self, call, ls, gan>>

(***************************************************************************)
(* Bounds of the model.                                                    *)
(***************************************************************************)
MaxLen == 3
MaxVal == 1

Vals == 0..MaxVal

Idle == [pc |-> "idle"]

RECURSIVE SeqsUpTo(_, _)
SeqsUpTo(S, n) ==
    IF n = 0 THEN {<<>>}
    ELSE LET P == SeqsUpTo(S, n - 1)
         IN  P \cup {Append(s, x) : s \in {p \in P : Len(p) = n - 1}, x \in S}

SeqsOfLen(S, n) == {s \in SeqsUpTo(S, n) : Len(s) = n}

Min(a, b) == IF a < b THEN a ELSE b
Max(a, b) == IF a > b THEN a ELSE b

(***************************************************************************)
(* Python values that the Batch Runner handles.  An Optional value is a    *)
(* sequence of length <= 1: <<>> is None, <<v>> is the value v.            *)
(***************************************************************************)
Tensor(rows) == [kind |-> "tensor", rows |-> rows]
NoneVal == [kind |-> "none"]
\* a plain tuple of values; a namedtuple with the names of its fields; a
\* dict as its (key, value) entries
PyTuple(items) == [kind |-> "tuple", items |-> items]
PyNamedTuple(fields, items) == [kind |-> "namedtuple", fields |-> fields, items |-> items]
PyDict(items) == [kind |-> "dict", items |-> items]

None == <<>>
Some(v) == <<v>>
IsNone(o) == o = <<>>
Val(o) == o[1]

HasLen(v) == v.kind = "tensor"
PyLen(v) == Len(v.rows)
\* p[start:end]: a slice stops at the end of p
Slice(v, start, end) == Tensor(SubSeq(v.rows, start + 1, Min(end, PyLen(v))))

(***************************************************************************)
(* utils/io.py                                                             *)
(* A text is a record of its characters' count; a printed line is a record *)
(***************************************************************************)
Text(name, n) == [text |-> name, len |-> n]

\* print_as_yaml(obj, stdout=True, file=None, mode='w'): args are the
\* positional arguments of the call; obj is required
print_as_yaml(args) ==
    IF Len(args) = 0 THEN [err |-> "TypeError", out |-> <<>>]
    ELSE [err |-> "ok", out |-> <<[yaml |-> args[1]]>>]

\* print_split_line(content=None, length=60)
print_split_line(content) ==
    IF IsNone(content)
    THEN \* prints the dashes and goes on to len(content) with content None
         [err |-> "TypeError", out |-> <<[dashes |-> 60]>>]
    ELSE LET n == Val(content).len
             length == IF n > 60 - 4 THEN n + 4 ELSE 60
             total_num == length - n - 2
             left_num == total_num \div 2
             right_num == total_num - left_num
         IN  [err |-> "ok",
              out |-> <<[left |-> left_num, content |-> Val(content).text,
                         right |-> right_num]>>]

\* os.makedirs(path, exist_ok=True)
makedirs(path) ==
    IF IsNone(path) THEN "TypeError"
    ELSE IF Val(path) = "" THEN "FileNotFoundError"
    ELSE "ok"

(***************************************************************************)
(* attack/base.py: what the Attacker does with one chunk.  env holds the   *)
(* Attacker object, the image files written so far and the arguments of    *)
(* every call made to the optimization routine.                            *)
(***************************************************************************)
Rest(s) == IF s = <<>> THEN <<>> ELSE Tail(s)

\* config.optimize_fn(init_latents, labels), returning (images, labels)
\*   identity : one image per latent, labels as given
\*   drop     : drops the first sample of the chunk
\*   unpaired : returns one label less than images
\*   fail_on  : raises when the chunk holds the latent fn.bad
OptimizeFn(fn, latents, labels) ==
    IF fn.kind = "fail_on" /\ \E i \in 1..PyLen(latents) : latents.rows[i] = fn.bad
    THEN [err |-> "RuntimeError:optimize", images |-> NoneVal, labels |-> NoneVal]
    ELSE IF fn.kind = "drop"
    THEN [err |-> "ok", images |-> Tensor(Rest(latents.rows)),
          labels |-> Tensor(Rest(labels.rows))]
    ELSE IF fn.kind = "unpaired"
    THEN [err |-> "ok", images |-> latents, labels |-> Tensor(Rest(labels.rows))]
    ELSE [err |-> "ok", images |-> latents, labels |-> labels]

UpdateNoLabels(obj, images, labels) ==
    IF PyLen(images) # PyLen(labels) THEN [err |-> "AssertionError", obj |-> obj]
    ELSE [err |-> "ok",
          obj |-> [obj EXCEPT !.optimized_images = Append(@, images)]]

\* update_optimized_images
update_optimized_images(obj, images, labels) ==
    IF PyLen(images) # PyLen(labels) THEN [err |-> "AssertionError", obj |-> obj]
    ELSE [err |-> "ok",
          obj |-> [obj EXCEPT !.optimized_images = Append(@, images),
                              !.optimized_labels = Append(@, labels)]]

\* save_images: one file per image, in the directory of its label; the file
\* name ends in a random string and is left out
save_images(saved, root_dir, images, labels) ==
    IF PyLen(images) # PyLen(labels) THEN [err |-> "AssertionError", saved |-> saved]
    ELSE [err |-> "ok",
          saved |-> saved \o [i \in 1..PyLen(images) |->
                                [root |-> root_dir, label |-> labels.rows[i],
                                 image |-> images.rows[i]]]]

\* batch_optimize
batch_optimize(env, init_latents, labels) ==
    LET c == env.obj.config
        called == [env EXCEPT !.optimize_calls =
                                Append(@, <<init_latents.rows, labels.rows>>)]
    IN  IF IsNone(c.optimize_fn) THEN [err |-> "TypeError", env |-> env]
        ELSE LET r == OptimizeFn(Val(c.optimize_fn), init_latents, labels) IN
             IF r.err # "ok" THEN [err |-> r.err, env |-> called]
             ELSE LET u == update_optimized_images(env.obj, r.images, r.labels)
                      updated == [called EXCEPT !.obj = u.obj]
                  IN  IF u.err # "ok" THEN [err |-> u.err, env |-> called]
                      ELSE IF ~c.save_optimized_images THEN [err |-> "ok", env |-> updated]
                      ELSE IF IsNone(c.save_dir) THEN [err |-> "TypeError", env |-> updated]
                      ELSE LET sv == save_images(env.saved, "optimized_images",
                                                 r.images, r.labels)
                           IN  [err |-> sv.err,
                                env |-> [updated EXCEPT !.saved = sv.saved]]

NoEnv == [obj |-> NoneVal, saved |-> <<>>, optimize_calls |-> <<>>]

(***************************************************************************)
(* The function handed to batch_apply.                                     *)
(*   rowwise : output row i is tab[<<row i of every input>>]               *)
(*   partial : rowwise, but raises when a row of the chunk is fn.bad       *)
(*   tupled  : returns the tuple (rowwise output, first input)             *)
(*   dicted  : returns the dict {'out': rowwise output, 'first': input}    *)
(*   fielded : returns the namedtuple (out=rowwise output, first=input)    *)
(*   varied  : returns for a chunk one of these, a dict of one key, an     *)
(*             empty tuple or None, by the value of the chunk's first row  *)
(*   none    : the Python value None (calling it raises TypeError)         *)
(*   method  : the bound method batch_optimize of the object fn.env.obj    *)
(***************************************************************************)
RowOf(args, i) == [j \in 1..Len(args) |-> args[j].rows[i]]

\* what a function of kind varied returns for a chunk, by the value v it
\* computes for the chunk's first row
Form(fn, v) == IF v = 0 THEN fn.forms[1] ELSE fn.forms[2]

CallFn(fn, args) ==
    IF fn.kind = "none" THEN [err |-> "TypeError", val |-> NoneVal]
    ELSE IF \E j \in 1..Len(args) : PyLen(args[j]) # PyLen(args[1])
    THEN \* a row-wise function needs a row of every input
         [err |-> "RuntimeError:shape", val |-> NoneVal]
    ELSE IF fn.kind = "partial" /\ \E i \in 1..PyLen(args[1]) : RowOf(args, i) = fn.bad
    THEN [err |-> "ValueError", val |-> NoneVal]
    ELSE LET t == Tensor([i \in 1..PyLen(args[1]) |-> fn.tab[RowOf(args, i)]])
             form == IF fn.kind # "varied" THEN fn.kind
                     ELSE IF t.rows = <<>> THEN "rowwise"
                     ELSE Form(fn, t.rows[1])
         IN  [err |-> "ok",
              val |-> IF form = "tupled" THEN PyTuple(<<t, args[1]>>)
                      ELSE IF form = "dicted" THEN PyDict(<<<<"out", t>>, <<"first", args[1]>>>>)
                      ELSE IF form = "named" THEN PyDict(<<<<"out", t>>>>)
                      ELSE IF form = "fielded"
                      THEN PyNamedTuple(<<"out", "first">>, <<t, args[1]>>)
                      ELSE IF form = "empty" THEN PyTuple(<<>>)
                      ELSE IF form = "nothing" THEN NoneVal
                      ELSE t]

InvokeSwallow(fn, args, env) ==
    IF fn.kind = "method"
    THEN IF Len(args) # 2 THEN [err |-> "ok", val |-> NoneVal, env |-> env]
         ELSE [err |-> "ok", val |-> NoneVal,
               env |-> batch_optimize(env, args[1], args[2]).env]
    ELSE [CallFn(fn, args) EXCEPT !.err = "ok"] @@ [env |-> env]

\* fn(*args) where fn may change the object it is bound to
Invoke(fn, args, env) ==
    IF fn.kind = "method"
    THEN IF Len(args) # 2 THEN [err |-> "TypeError", val |-> NoneVal, env |-> env]
         ELSE LET r == batch_optimize(env, args[1], args[2])
              IN  [err |-> r.err, val |-> NoneVal, env |-> r.env]
    ELSE CallFn(fn, args) @@ [env |-> env]

\* the object a bound method carries; any other value carries none
BoundEnv(fn) ==
    IF "kind" \in DOMAIN fn /\ fn.kind = "method" THEN fn.env ELSE NoEnv

(***************************************************************************)
(* utils/batch.py                                                          *)
(***************************************************************************)
RECURSIVE Cat(_)
Cat(outputs) ==
    IF outputs = <<>> THEN <<>>
    ELSE Head(outputs).rows \o Cat(Tail(outputs))

HasKey(d, k) == \E e \in 1..Len(d.items) : d.items[e][1] = k
DictGet(d, k) == d.items[CHOOSE e \in 1..Len(d.items) : d.items[e][1] = k][2]
Least(S) == CHOOSE j \in S : \A k \in S : j <= k

\* The outputs of the calls need not be of one type, and gather_map then
\* meets values that no function returned: the 0-d tensor that iterating a
\* tensor yields, and the key (a str) that iterating a dict yields.  Of a
\* str only the number of its characters matters.
Scalar(v) == [kind |-> "scalar", val |-> v]
Str(n) == [kind |-> "str", len |-> n]

\* isinstance(v, torch.Tensor)
IsTensor(v) == v.kind \in {"tensor", "scalar"}

\* len(v) and iter(v) raise TypeError for None and for a 0-d tensor
Sized(v) == v.kind \in {"tensor", "dict", "tuple", "namedtuple", "str"}

\* len(v)
SizeOf(v) ==
    IF v.kind = "tensor" THEN Len(v.rows)
    ELSE IF v.kind = "str" THEN v.len
    ELSE Len(v.items)

\* list(v): the rows of a tensor, the keys of a dict, the items of a tuple,
\* the characters of a str
Elems(v) ==
    IF v.kind = "tensor" THEN [i \in 1..Len(v.rows) |-> Scalar(v.rows[i])]
    ELSE IF v.kind = "dict" THEN [i \in 1..Len(v.items) |-> Str(Len(v.items[i][1]))]
    ELSE IF v.kind = "str" THEN [i \in 1..v.len |-> Str(1)]
    ELSE v.items

\* d[k] for a key k of a dict (a str): a dict without k raises KeyError, a
\* tensor IndexError, a tuple and a str TypeError
GetItem(d, k) ==
    IF d.kind = "dict"
    THEN IF HasKey(d, k) THEN [err |-> "ok", val |-> DictGet(d, k)]
         ELSE [err |-> "KeyError", val |-> NoneVal]
    ELSE IF d.kind = "tensor" THEN [err |-> "IndexError", val |-> NoneVal]
    ELSE [err |-> "TypeError", val |-> NoneVal]

\* _gather.gather_map, by the type of the first output:
\*   tensor : torch.cat along axis 0; it takes tensors only (TypeError) and
\*            none of them 0-d (RuntimeError)
\*   None   : None
\*   dict   : len(d) of every output in turn, which must be len(out); then
\*            for every key of the first the gathered d[k] of the outputs
\*   namedtuple : zip(*outputs) takes an iterator of every output and stops
\*            at the shortest; the columns are gathered and _make then
\*            wants as many as the type has fields (TypeError)
\*   other  : the gathered columns of zip(*outputs), as a tuple.  For a
\*            str, str(map(...)) is the text that names the map object and
\*            the columns are never gathered.
\* An exception ends the gathering where it is raised.
RECURSIVE gather(_)
gather(outputs) ==
    IF outputs = <<>> THEN [err |-> "IndexError", val |-> NoneVal]
    ELSE
    LET out == Head(outputs)
        n == Len(outputs)
        failed(e) == [err |-> e, val |-> NoneVal]
    IN  IF IsTensor(out)
        THEN IF \E i \in 1..n : ~IsTensor(outputs[i]) THEN failed("TypeError")
             ELSE IF \E i \in 1..n : outputs[i].kind = "scalar" THEN failed("RuntimeError")
             ELSE [err |-> "ok", val |-> Tensor(Cat(outputs))]
        ELSE IF out.kind = "none" THEN [err |-> "ok", val |-> NoneVal]
        ELSE IF out.kind = "dict"
        THEN LET odd == {i \in 1..n : \/ ~Sized(outputs[i])
                                      \/ SizeOf(outputs[i]) # SizeOf(out)}
             IN  IF odd # {}
                 THEN IF Sized(outputs[Least(odd)]) THEN failed("ValueError")
                      ELSE failed("TypeError")
                 ELSE LET key(j) == out.items[j][1]
                          got(j) == [i \in 1..n |-> GetItem(outputs[i], key(j))]
                          missed(j) == {i \in 1..n : got(j)[i].err # "ok"}
                          parts == [j \in 1..Len(out.items) |->
                                      IF missed(j) # {}
                                      THEN failed(got(j)[Least(missed(j))].err)
                                      ELSE gather([i \in 1..n |-> got(j)[i].val])]
                          bad == {j \in 1..Len(out.items) : parts[j].err # "ok"}
                      IN  IF bad # {} THEN failed(parts[Least(bad)].err)
                          ELSE [err |-> "ok",
                                val |-> PyDict([j \in 1..Len(out.items) |->
                                                  <<key(j), parts[j].val>>])]
        ELSE IF \E i \in 1..n : ~Sized(outputs[i]) THEN failed("TypeError")
        ELSE IF out.kind = "str"
        THEN [err |-> "ok", val |-> [kind |-> "str", repr |-> "map object"]]
        ELSE LET m == Least({SizeOf(outputs[i]) : i \in 1..n})
                 parts == [j \in 1..m |-> gather([i \in 1..n |-> Elems(outputs[i])[j]])]
                 bad == {j \in 1..m : parts[j].err # "ok"}
                 vals == [j \in 1..m |-> parts[j].val]
             IN  IF bad # {} THEN failed(parts[Least(bad)].err)
                 ELSE IF out.kind = "tuple" THEN [err |-> "ok", val |-> PyTuple(vals)]
                 ELSE IF m # Len(out.fields) THEN failed("TypeError")
                 ELSE [err |-> "ok", val |-> PyNamedTuple(out.fields, vals)]

CheckValidNoLenOnly(inputs) ==
    IF \E j \in 1..Len(inputs) : ~HasLen(inputs[j]) THEN "RuntimeError:nolen"
    ELSE "ok"

\* batch_apply._check_valid
check_valid(inputs) ==
    IF \E j \in 1..Len(inputs) : ~HasLen(inputs[j]) THEN "RuntimeError:nolen"
    ELSE IF \E j \in 1..Len(inputs) : PyLen(inputs[j]) # PyLen(inputs[1])
         THEN "RuntimeError:lengths"
         ELSE "ok"

ChunkEndOffByOne(total_len, start, batch_size) == Min(total_len, start + batch_size) - 1

\* end = min(total_len, start + batch_size)
ChunkEnd(total_len, start, batch_size) == Min(total_len, start + batch_size)

NextStartSkip(start, batch_size) == start + batch_size + 1

\* starts = range(0, total_len, batch_size): the start after `start`
NextStart(start, batch_size) == start + batch_size

\* len(range(0, total_len, batch_size))
IterTimes(total_len, batch_size) == (total_len + batch_size - 1) \div batch_size

\* f'{description}: {i} / {iter_times}', both numbers of one digit
Progress(description, i, iter_times) ==
    [text |-> <<description.text, i, iter_times>>, len |-> description.len + 7]

\* the loop of batch_apply over starts: st carries the results, the (start,
\* end) of every call made so far, the lines printed and the object that fn
\* is bound to; res is the outcome of the one call fn(*chunk)
RECURSIVE batch_loop(_, _, _, _, _, _)
batch_loop(fn, inputs, batch_size, description, start, st) ==
    LET total_len == PyLen(inputs[1]) IN
    IF start >= total_len THEN st
    ELSE LET end == ChunkEnd(total_len, start, batch_size)
             args == [j \in 1..Len(inputs) |-> Slice(inputs[j], start, end)]
             line == IF IsNone(description) THEN <<>>
                     ELSE print_split_line(
                            Some(Progress(Val(description), Len(st.calls) + 1,
                                          IterTimes(total_len, batch_size)))).out
         IN  CHOOSE after \in
               {IF res.err # "ok"
                THEN [st EXCEPT !.calls = Append(@, <<start, end>>),
                                !.out = @ \o line, !.env = res.env,
                                !.err = res.err]
                ELSE batch_loop(fn, inputs, batch_size, description,
                                NextStart(start, batch_size),
                                [st EXCEPT !.calls = Append(@, <<start, end>>),
                                           !.out = @ \o line, !.env = res.env,
                                           !.results = Append(@, res.val)]) :
                  res \in {Invoke(fn, args, st.env)}} : TRUE

\* batch_apply(fn, *inputs, batch_size=batch_size, description=description)
batch_apply_described(fn, inputs, batch_size, description) ==
    LET v == check_valid(inputs)
        st0 == [err |-> "ok", results |-> <<>>, calls |-> <<>>, out |-> <<>>,
                env |-> BoundEnv(fn)]
        failed(e, st) == [err |-> e, val |-> NoneVal, calls |-> st.calls,
                          out |-> st.out, env |-> st.env]
    IN  IF v # "ok" THEN failed(v, st0)
        ELSE IF Len(inputs) = 0 THEN failed("IndexError", st0)
        ELSE LET st == batch_loop(fn, inputs, batch_size, description, 0, st0)
                 g == gather(st.results)
             IN  IF st.err # "ok" THEN failed(st.err, st)
                 ELSE [err |-> g.err, val |-> g.val, calls |-> st.calls,
                       out |-> st.out, env |-> st.env]

\* batch_apply(fn, *inputs, batch_size=batch_size)
batch_apply(fn, inputs, batch_size) ==
    batch_apply_described(fn, inputs, batch_size, None)

(***************************************************************************)
(* Specification of the Batch Runner: Init draws the function, the inputs  *)
(* and the batch size, BatchApply runs batch_apply on them.                *)
(***************************************************************************)
BatchInputs ==
    UNION {SeqsOfLen({Tensor(r) : r \in SeqsUpTo(Vals, MaxLen)} \cup {NoneVal}, n) : n \in 0..2}

RowwiseFns(n) == {[kind |-> "rowwise", tab |-> t] : t \in [SeqsOfLen(Vals, n) -> Vals]}

PartialFns(n) ==
    {[kind |-> "partial", tab |-> [r \in SeqsOfLen(Vals, n) |-> r[1]], bad |-> b] :
       b \in {r \in SeqsOfLen(Vals, n) : n > 0}}

StructuredFns(n) ==
    {[kind |-> k, tab |-> [r \in SeqsOfLen(Vals, n) |-> MaxVal - r[1]]] :
       k \in {k \in {"tupled", "dicted", "fielded"} : n > 0}}

\* functions whose outputs are not of one type
Forms == {"rowwise", "tupled", "dicted", "fielded", "named", "empty", "nothing"}

VariedFns(n) ==
    {[kind |-> "varied", tab |-> [r \in SeqsOfLen(Vals, n) |-> r[1]], forms |-> f] :
       f \in {f \in Forms \X Forms : n > 0 /\ f[1] # f[2]}}

BatchInit ==
    /\ \E inputs \in BatchInputs, B \in 1..(MaxLen + 1) :
         \E fn \in RowwiseFns(Len(inputs)) \cup PartialFns(Len(inputs))
                     \cup StructuredFns(Len(inputs)) \cup VariedFns(Len(inputs))
                     \cup {NoneVal} :
            ba = [pc |-> "ready", fn |-> fn, inputs |-> inputs, batch_size |-> B]
    /\ cf = Idle /\ self = Idle /\ call = Idle /\ ls = Idle /\ gan = Idle

BatchApply ==
    /\ ba.pc = "ready"
    /\ LET r == batch_apply(ba.fn, ba.inputs, ba.batch_size)
       IN  ba' = [ba EXCEPT !.pc = "returned"] @@ r
    /\ UNCHANGED <<cf, self, call, ls, gan>>

BatchNext == BatchApply

SpecBatch == BatchInit /\ [][BatchNext]_vars

(***************************************************************************)
(* attack/base.py: ImageClassifierAttackConfig and its validation.         *)
(***************************************************************************)
MaxNum == 2

\* `not config.save_dir`: None and the empty string are falsy
Falsy(save_dir) == IsNone(save_dir) \/ Val(save_dir) = ""

\* the field defaults of the dataclass ImageClassifierAttackConfig
DefaultConfig ==
    [sample_latents_fn |-> None,
     initial_num |-> None,
     initial_latents_score_fn |-> None,
     initial_select_batch_size |-> None,
     optimize_num |-> None,
     optimize_batch_size |-> Some(5),
     optimize_fn |-> None,
     final_num |-> Some(50),
     final_images_score_fn |-> None,
     final_select_batch_size |-> None,
     save_dir |-> None,
     save_optimized_images |-> FALSE,
     save_final_images |-> FALSE]

\* the four checks that raise RuntimeError, in the order of the code
config_error(config) ==
    IF (config.save_optimized_images \/ config.save_final_images) /\ Falsy(config.save_dir)
    THEN "RuntimeError:save_dir"
    ELSE IF IsNone(config.sample_latents_fn) THEN "RuntimeError:sample_latents_fn"
    ELSE IF IsNone(config.optimize_fn) THEN "RuntimeError:optimize_fn"
    ELSE IF IsNone(config.final_num) THEN "RuntimeError:final_num"
    ELSE "ok"

SetWhen(cond, config, field, value) ==
    IF cond THEN [config EXCEPT ![field] = value] ELSE config

WarnWhen(cond, warns, msg) == IF cond THEN Append(warns, msg) ELSE warns

ClampFinalDown(c) == [c EXCEPT !.final_num = c.optimize_num]

\* if config.final_num > config.optimize_num: config.optimize_num = config.final_num
RaiseOptimize(c) == [c EXCEPT !.optimize_num = c.final_num]

ClampOptimizeDown(c) == [c EXCEPT !.optimize_num = c.initial_num]

\* if config.optimize_num > config.initial_num: config.initial_num = config.optimize_num
RaiseInitial(c) == [c EXCEPT !.initial_num = c.optimize_num]

\* _preprocess_config: the config is mutated in place and returned
preprocess_config(config) ==
    LET e == config_error(config) IN
    IF e # "ok" THEN [err |-> e, config |-> config, warns |-> <<>>]
    ELSE
    LET c1 == SetWhen(IsNone(config.initial_num), config, "initial_num", config.final_num)
        c2 == SetWhen(IsNone(c1.optimize_num), c1, "optimize_num", c1.final_num)
        w3 == Val(c2.final_num) > Val(c2.optimize_num)
        c3 == IF w3 THEN RaiseOptimize(c2) ELSE c2
        w4 == Val(c3.optimize_num) > Val(c3.initial_num)
        c4 == IF w4 THEN RaiseInitial(c3) ELSE c3
        c5 == SetWhen(IsNone(c4.initial_select_batch_size), c4,
                      "initial_select_batch_size", c4.optimize_batch_size)
        \* config.final_select_batch_size = config.final_select_batch_size
        c6 == SetWhen(IsNone(c5.final_select_batch_size), c5,
                      "final_select_batch_size", c5.final_select_batch_size)
    IN  [err |-> "ok", config |-> c6,
         warns |-> WarnWhen(w4, WarnWhen(w3, <<>>, "final > optimize"),
                            "optimize > initial")]

\* ImageClassifierAttacker.__init__
Attacker_init(config, metrics) ==
    LET p == preprocess_config(config) IN
    [err |-> p.err,
     warns |-> p.warns,
     obj |-> [config |-> p.config, metrics |-> metrics,
              optimized_images |-> <<>>, optimized_labels |-> <<>>]]

\* ImageClassifierAttacker(config, metrics): the class derives from ABCMeta,
\* so the call runs ABCMeta.__new__(mcls, name, bases, namespace) with two
\* arguments and raises TypeError before __init__ is entered
construct(config, metrics) ==
    [err |-> "TypeError", warns |-> <<>>, obj |-> None]

(***************************************************************************)
(* Specification of the configuration: Init draws a config, Construct      *)
(* evaluates ImageClassifierAttacker(config, metrics) and PreprocessConfig *)
(* calls the method _preprocess_config on the config.                      *)
(***************************************************************************)
Nums == 0..MaxNum \cup {5, 10, 20}
OptNums == {None} \cup {Some(n) : n \in Nums}
OptFns == {None, Some("fn")}
SaveDirs == {None, Some(""), Some("out")}

Configs ==
    {[DefaultConfig EXCEPT
        !.sample_latents_fn = s, !.optimize_fn = o,
        !.initial_num = i, !.optimize_num = n, !.final_num = f,
        !.save_dir = d, !.save_optimized_images = so, !.save_final_images = sf,
        !.final_select_batch_size = fb] :
      s \in OptFns, o \in OptFns, i \in OptNums, n \in OptNums, f \in OptNums,
      d \in SaveDirs, so \in BOOLEAN, sf \in BOOLEAN, fb \in {None, Some(2)}}

ConfigInit ==
    /\ \E c \in Configs : cf = [pc |-> "ready", input |-> c]
    /\ ba = Idle /\ self = Idle /\ call = Idle /\ ls = Idle /\ gan = Idle

Construct ==
    /\ cf.pc = "ready"
    /\ cf' = [cf EXCEPT !.pc = "constructed"] @@ construct(cf.input, <<>>)
    /\ UNCHANGED <<ba, self, call, ls, gan>>

PreprocessConfig ==
    /\ cf.pc = "ready"
    /\ cf' = [cf EXCEPT !.pc = "preprocessed"] @@ preprocess_config(cf.input)
    /\ UNCHANGED <<ba, self, call, ls, gan>>

ConfigNext == Construct \/ PreprocessConfig

SpecConfig == ConfigInit /\ [][ConfigNext]_vars

(***************************************************************************)
(* Collaborators of the Attacker.                                          *)
(*   sampler: call number k (from 0) for n latents returns n fresh rows    *)
(*   score function: row-wise over (candidate, label), see CallFn          *)
(*   metric: returns its ordered mapping, a sequence of <<key, value>>     *)
(***************************************************************************)
MaxSample == 3
Labels == {3, 7}

Sample(k, n) == [i \in 1..n |-> k * (MaxSample + 1) + i]

Latents == 1..(2 * (MaxSample + 1))
ScoreRows == {<<x, l>> : x \in Latents, l \in Labels}

ScoreFns ==
    {[kind |-> "rowwise", tab |-> [r \in ScoreRows |-> r[1]]],
     [kind |-> "rowwise", tab |-> [r \in ScoreRows |-> 2 * (MaxSample + 1) - r[1]]],
     [kind |-> "rowwise", tab |-> [r \in ScoreRows |-> (r[1] + r[2]) % 3]]}

\* the trace of what one method call did besides its result
NoTrace ==
    [sampler_calls |-> <<>>, score_calls |-> <<>>, batch_applies |-> 0,
     metric_calls |-> <<>>, evals |-> <<>>, out |-> <<>>, warns |-> <<>>,
     phases |-> <<>>]

Raise(e, trace) == [err |-> e, result |-> NoneVal] @@ trace
Return(v, trace) == [err |-> "ok", result |-> v] @@ trace

(***************************************************************************)
(* attack/base.py: the methods of ImageClassifierAttacker.  obj is the     *)
(* object the method is invoked on, with the attributes __init__ assigns.  *)
(* Line 139 of the file does not compile; the other methods are modelled   *)
(* by what their statements do, concat_tensor_labels by the SyntaxError.   *)
(***************************************************************************)
\* d[k] = v on an OrderedDict: a key keeps the position of its first insertion
dict_set(d, k, v) ==
    IF \E i \in 1..Len(d) : d[i][1] = k
    THEN [i \in 1..Len(d) |-> IF d[i][1] = k THEN <<k, v>> ELSE d[i]]
    ELSE Append(d, <<k, v>>)

\* for k, v in items: d[k] = v
RECURSIVE dict_update(_, _)
dict_update(d, items) ==
    IF items = <<>> THEN d
    ELSE dict_update(dict_set(d, Head(items)[1], Head(items)[2]), Tail(items))


\* concat_tensor_labels: its last statement is `raise tensors, labels`, which
\* Python 3 rejects when it compiles the method, so the method has no body
\* to run and every use of it ends in SyntaxError, whatever the argument
concat_tensor_labels(target_dict) == Raise("SyntaxError", NoTrace)

SkipsScoring(latent_score_fn, sample_num, select_num) ==
    IsNone(latent_score_fn) \/ sample_num = select_num

\* lines 118-128 of initial_latents: sample, score through the Batch Runner,
\* then `for i in range(labels)` with labels a list
score_and_select(batch_size, sample_num, labels, latent_score_fn, trace) ==
    LET raw_latents == Sample(Len(trace.sampler_calls), sample_num)
        t1 == [trace EXCEPT !.sampler_calls = Append(@, sample_num)]
        fn == IF IsNone(latent_score_fn) THEN NoneVal ELSE Val(latent_score_fn)
        b == batch_apply(fn, <<Tensor(raw_latents), Tensor(labels)>>, batch_size)
        t2 == [t1 EXCEPT !.batch_applies = @ + 1,
                         !.score_calls = IF IsNone(latent_score_fn) THEN @
                                         ELSE @ \o b.calls]
    IN  IF b.err # "ok" THEN Raise(b.err, t2)
        ELSE Raise("TypeError", t2)

\* the branch at lines 111-116 samples select_num latents, builds the dict
\* {label: latents} without returning it, and the method goes on
initial_latents(config, batch_size, sample_num0, select_num, labels, latent_score_fn) ==
    LET w1 == sample_num0 < select_num
        sample_num == IF w1 THEN select_num ELSE sample_num0
        t0 == [NoTrace EXCEPT !.warns = WarnWhen(w1, @, "sample_num < select_num")]
        t1 == [t0 EXCEPT !.sampler_calls = Append(@, select_num),
                         !.warns = WarnWhen(sample_num > select_num, @,
                                            "no score function")]
    IN  IF SkipsScoring(latent_score_fn, sample_num, select_num)
        THEN score_and_select(batch_size, sample_num, labels, latent_score_fn, t1)
        ELSE score_and_select(batch_size, sample_num, labels, latent_score_fn, t0)

\* if final_num == len(images): return images
ReturnImages(images, labels, trace) == Return(Tensor(images), trace)

final_selection(obj, batch_size, final_num0, images, labels, image_score_fn) ==
    IF Len(images) # Len(labels) THEN Raise("AssertionError", NoTrace)
    ELSE
    LET w1 == final_num0 # Len(images) /\ IsNone(image_score_fn)
        final_num == IF w1 THEN Len(images) ELSE final_num0
        t0 == [NoTrace EXCEPT !.warns = WarnWhen(w1, @, "no score function")]
    IN  IF final_num = Len(images) THEN ReturnImages(images, labels, t0)
        ELSE \* batch_apply(self, image_score_fn, images, labels, batch_size=...)
             \* the attacker is the function, the score function the first input
             LET b == batch_apply(obj, <<Val(image_score_fn), Tensor(images),
                                         Tensor(labels)>>, batch_size)
                 t1 == [t0 EXCEPT !.batch_applies = @ + 1,
                                  !.out = Append(@, [text |-> "execute final selection"])]
             IN  Raise(b.err, t1)

RECURSIVE metric_items(_)
metric_items(metrics) ==
    IF metrics = <<>> THEN <<>> ELSE Head(metrics) \o metric_items(Tail(metrics))

\* _evaluation: the closing print_split_line() is called without content
evaluation(obj, images, labels, description) ==
    LET result == dict_update(<<>>, metric_items(obj.metrics))
        t0 == [NoTrace EXCEPT !.metric_calls = [i \in 1..Len(obj.metrics) |-> i]]
        h == print_split_line(Some(description))
        y == print_as_yaml(<<result>>)
        f == print_split_line(None)
        t1 == [t0 EXCEPT !.out = h.out]
        t2 == [t0 EXCEPT !.out = h.out \o y.out]
        t3 == [t0 EXCEPT !.out = h.out \o y.out \o f.out]
    IN  IF h.err # "ok" THEN Raise(h.err, t1)
        ELSE IF y.err # "ok" THEN Raise(y.err, t2)
        ELSE IF f.err # "ok" THEN Raise(f.err, t3)
        ELSE Return(NoneVal, t3)

\* torch.cat of a list of tensors; an empty list raises
concat_optimized_images(obj) ==
    IF obj.optimized_images = <<>>
    THEN [err |-> "RuntimeError", result |-> NoneVal]
    ELSE [err |-> "ok",
          result |-> PyTuple(<<Tensor(Cat(obj.optimized_images)),
                               Tensor(Cat(obj.optimized_labels))>>)]

\* the trace of a call once the method call r it made has ended
After(t, r) ==
    [t EXCEPT !.sampler_calls = @ \o r.sampler_calls,
              !.score_calls = @ \o r.score_calls,
              !.batch_applies = @ + r.batch_applies,
              !.metric_calls = @ \o r.metric_calls,
              !.evals = @ \o r.evals,
              !.out = @ \o r.out,
              !.warns = @ \o r.warns]

Enter(t, phase) == [t EXCEPT !.phases = Append(@, phase)]

\* attack() ends here: obj is the Attacker as the call leaves it, saved the
\* image files the call has written
Abort(e, t, obj, saved) == Raise(e, t) @@ [obj |-> obj, saved |-> saved]

\* what a call of attack() shows besides the Attacker and the files
Outcome(r) == [f \in DOMAIN r \ {"obj", "saved"} |-> r[f]]

\* line 242 of attack: the final evaluation, then the end of the method;
\* e is the outcome of the call of _evaluation
attack_evaluate(obj, saved, final_images, final_labels, t) ==
    CHOOSE r \in
      {IF e.err # "ok"
       THEN Abort(e.err, [After(Enter(t, "Evaluate"), e) EXCEPT
                             !.evals = Append(@, "Final Image Evaluation")],
                  obj, saved)
       ELSE Return(NoneVal,
                   Enter([After(Enter(t, "Evaluate"), e) EXCEPT
                             !.evals = Append(@, "Final Image Evaluation")], "Done"))
            @@ [obj |-> obj, saved |-> saved] :
         e \in {evaluation(obj, final_images, final_labels,
                           Text("Final Image Evaluation", 22))}} : TRUE

\* lines 237-240 of attack: the final selection, whose result s.result is
\* unpacked into final_images, final_labels.  final_selection returns the
\* images alone, a tensor: unpacking it takes its rows, which must be two.
\* A row is a 0-d tensor, and the assert of save_images takes len() of it.
attack_final(obj, saved, optimized_images, optimized_labels, t) ==
    CHOOSE r \in
      {IF s.err # "ok" THEN Abort(s.err, After(Enter(t, "FinalSelect"), s), obj, saved)
       ELSE IF PyLen(s.result) # 2
       THEN Abort("ValueError", After(Enter(t, "FinalSelect"), s), obj, saved)
       ELSE IF obj.config.save_final_images
       THEN Abort("TypeError", After(Enter(t, "FinalSelect"), s), obj, saved)
       ELSE attack_evaluate(obj, saved, Scalar(s.result.rows[1]),
                            Scalar(s.result.rows[2]),
                            After(Enter(t, "FinalSelect"), s)) :
         s \in {final_selection(obj, obj.config.final_select_batch_size,
                                Val(obj.config.final_num),
                                optimized_images.rows, optimized_labels.rows,
                                obj.config.final_images_score_fn)}} : TRUE

\* lines 233-234 of attack: the evaluation of the optimized images when it
\* is asked for; e is the outcome of the call of _evaluation, or of no call
attack_eval_optimized(obj, saved, optimized_images, optimized_labels, eval_optimized, t) ==
    CHOOSE r \in
      {IF e.err # "ok"
       THEN Abort(e.err, [After(t, e) EXCEPT
                             !.evals = Append(@, "Optimized Image Evaluation")],
                  obj, saved)
       ELSE attack_final(obj, saved, optimized_images, optimized_labels,
                         IF ~eval_optimized THEN t
                         ELSE [After(t, e) EXCEPT
                                  !.evals = Append(@, "Optimized Image Evaluation")]) :
         e \in {IF ~eval_optimized THEN Return(NoneVal, NoTrace)
                ELSE evaluation(obj, optimized_images, optimized_labels,
                                Text("Optimized Image Evaluation", 26))}} : TRUE

\* line 230 of attack: the concatenation of the accumulators, unpacked into
\* optimized_images, optimized_labels
attack_concat(obj, saved, eval_optimized, t) ==
    CHOOSE r \in
      {IF cat.err # "ok" THEN Abort(cat.err, t, obj, saved)
       ELSE attack_eval_optimized(obj, saved, cat.result.items[1],
                                  cat.result.items[2], eval_optimized, t) :
         cat \in {concat_optimized_images(obj)}} : TRUE

\* line 227 of attack: the Batch Runner over batch_optimize; b is its
\* outcome, b.env the Attacker and the files as the chunks left them
attack_optimize(obj, init_latents, init_labels, eval_optimized, t) ==
    CHOOSE r \in
      {IF b.err # "ok"
       THEN Abort(b.err, [Enter(t, "Optimize") EXCEPT !.batch_applies = @ + 1,
                                                      !.out = @ \o b.out],
                  b.env.obj, b.env.saved)
       ELSE attack_concat(b.env.obj, b.env.saved, eval_optimized,
                          [Enter(t, "Optimize") EXCEPT !.batch_applies = @ + 1,
                                                       !.out = @ \o b.out]) :
         b \in {batch_apply_described(
                  [kind |-> "method",
                   env |-> [obj |-> obj, saved |-> <<>>, optimize_calls |-> <<>>]],
                  <<init_latents, init_labels>>,
                  Val(obj.config.optimize_batch_size),
                  Some(Text("Optimized Batch", 15)))}} : TRUE

\* lines 217-224 of attack: the initial selection, whose result s.result is
\* unpacked into init_latents, init_labels
attack_select(obj, target_list, eval_optimized, t) ==
    CHOOSE r \in
      {IF s.err # "ok" THEN Abort(s.err, After(Enter(t, "InitialSelect"), s), obj, <<>>)
       ELSE attack_optimize(obj, s.result.items[1], s.result.items[2],
                            eval_optimized, After(Enter(t, "InitialSelect"), s)) :
         s \in {initial_latents(obj.config,
                                Val(obj.config.initial_select_batch_size),
                                Val(obj.config.initial_num),
                                Val(obj.config.optimize_num), target_list,
                                obj.config.initial_latents_score_fn)}} : TRUE

\* attack: os.makedirs(config.save_dir), print_split_line('Attack Config'),
\* print_as_yaml() without the config, print_split_line() without content,
\* then the selection, the optimization, the final selection and the
\* evaluation.  No statement is in a try: an exception ends the call where
\* it is raised.
attack(obj, target_list, eval_optimized) ==
    LET d == makedirs(obj.config.save_dir)
        h == print_split_line(Some(Text("Attack Config", 13)))
        y == print_as_yaml(<<>>)
        f == print_split_line(None)
        t0 == [NoTrace EXCEPT !.phases = <<"Init">>]
        t1 == [t0 EXCEPT !.out = h.out]
        t2 == [t0 EXCEPT !.out = h.out \o y.out]
        t3 == [t0 EXCEPT !.out = h.out \o y.out \o f.out]
    IN  IF d # "ok" THEN Abort(d, t0, obj, <<>>)
        ELSE IF h.err # "ok" THEN Abort(h.err, t1, obj, <<>>)
        ELSE IF y.err # "ok" THEN Abort(y.err, t1, obj, <<>>)
        ELSE IF f.err # "ok" THEN Abort(f.err, t3, obj, <<>>)
        ELSE attack_select(obj, target_list, eval_optimized, t3)

(***************************************************************************)
(* Specification of the Attacker: Init is an object as __init__ leaves it  *)
(* for an accepted config; every action invokes one method on it.          *)
(***************************************************************************)
AttackConfigs ==
    {c \in {[DefaultConfig EXCEPT
               !.sample_latents_fn = Some("sampler"), !.optimize_fn = Some("optimizer"),
               !.initial_num = i, !.optimize_num = n, !.final_num = Some(1),
               !.optimize_batch_size = Some(2),
               !.initial_latents_score_fn = sc,
               !.save_dir = d, !.save_optimized_images = so] :
             i \in {None, Some(2)}, n \in {None, Some(1)},
             sc \in {None} \cup {Some(f) : f \in ScoreFns},
             d \in SaveDirs, so \in BOOLEAN} : config_error(c) = "ok"}

Metric1 == <<<<"acc", 1>>>>
Metric2 == <<<<"fid", 2>>, <<"acc", 3>>>>
MetricLists == {<<>>, <<Metric1>>, <<Metric1, Metric2>>}

LabelLists == SeqsUpTo(Labels, 2)
Images == SeqsUpTo(1..2, 2)

AttackInit ==
    /\ \E c \in AttackConfigs, ms \in MetricLists :
         self = [pc |-> "ready"] @@ Attacker_init(c, ms).obj
    /\ call = Idle
    /\ ba = Idle /\ cf = Idle /\ ls = Idle /\ gan = Idle

Attack ==
    /\ call = Idle
    /\ \E target_list \in LabelLists, eval_optimized \in BOOLEAN :
         \E r \in {attack(self, target_list, eval_optimized)} :
             /\ call' = [pc |-> "returned", method |-> "attack",
                         args |-> [target_list |-> target_list,
                                   eval_optimized |-> eval_optimized]]
                        @@ Outcome(r)
             /\ self' = r.obj
    /\ UNCHANGED <<ba, cf, ls, gan>>

InitialLatents ==
    /\ call = Idle
    /\ \E batch_size \in 1..2, sample_num \in 1..MaxSample, select_num \in 1..MaxSample,
          labels \in LabelLists, fn \in {None} \cup {Some(f) : f \in ScoreFns} :
         call' = [pc |-> "returned", method |-> "initial_latents",
                  args |-> [batch_size |-> batch_size, sample_num |-> sample_num,
                            select_num |-> select_num, labels |-> labels,
                            latent_score_fn |-> fn]]
                 @@ initial_latents(self.config, batch_size, sample_num, select_num,
                                    labels, fn)
    /\ UNCHANGED <<ba, cf, self, ls, gan>>

FinalSelection ==
    /\ call = Idle
    /\ \E batch_size \in {None, Some(2)}, final_num \in 0..MaxSample, images \in Images,
          labels \in LabelLists, fn \in {None} \cup {Some(f) : f \in ScoreFns} :
         call' = [pc |-> "returned", method |-> "final_selection",
                  args |-> [batch_size |-> batch_size, final_num |-> final_num,
                            images |-> images, labels |-> labels,
                            image_score_fn |-> fn]]
                 @@ final_selection(self, batch_size, final_num, images, labels, fn)
    /\ UNCHANGED <<ba, cf, self, ls, gan>>

ConcatTensorLabels ==
    /\ call = Idle
    /\ \E labels \in LabelLists, latents \in Images :
         LET target_dict == PyDict([i \in 1..Len(labels) |-> <<labels[i], Tensor(latents)>>])
         IN  call' = [pc |-> "returned", method |-> "concat_tensor_labels",
                      args |-> [target_dict |-> target_dict]]
                     @@ concat_tensor_labels(target_dict)
    /\ UNCHANGED <<ba, cf, self, ls, gan>>

Evaluation ==
    /\ call = Idle
    /\ \E images \in Images, labels \in LabelLists :
         /\ Len(images) = Len(labels)
         /\ call' = [pc |-> "returned", method |-> "_evaluation",
                     args |-> [images |-> images, labels |-> labels]]
                    @@ evaluation(self, images, labels, Text("Final Image Evaluation", 22))
    /\ UNCHANGED <<ba, cf, self, ls, gan>>

AttackNext ==
    \/ Attack
    \/ InitialLatents
    \/ FinalSelection
    \/ ConcatTensorLabels
    \/ Evaluation

SpecAttack == AttackInit /\ [][AttackNext]_vars

(***************************************************************************)
(* attack/losses.py: ComposeImageLoss.  A sub-loss returns its scalar loss *)
(* alone (dict None) or with an ordered mapping of diagnostics.            *)
(***************************************************************************)
MaxWeight == 2
MaxLoss == 4
MaxLosses == 2

\* __init__: weights default to ones; at least one loss; equal counts
compose_init(losses, weights0) ==
    LET weights == IF IsNone(weights0) THEN [i \in 1..Len(losses) |-> 1]
                   ELSE Val(weights0)
    IN  IF Len(losses) = 0 THEN [err |-> "RuntimeError:empty"]
        ELSE IF Len(weights) # Len(losses) THEN [err |-> "RuntimeError:count"]
        ELSE [err |-> "ok", losses |-> losses, weights |-> weights]

WeightedNoWeight(weight, loss) == loss

\* weight * loss
Weighted(weight, loss) == weight * loss

\* the loop of forward over zip(self.losses, self.weights), from index i
RECURSIVE compose_loop(_, _, _, _, _)
compose_loop(losses, weights, i, compose_loss, return_dict) ==
    IF i > Min(Len(losses), Len(weights))
    THEN [compose_loss |-> compose_loss, return_dict |-> return_dict]
    ELSE LET l == losses[i]
             d1 == IF IsNone(l.dict) THEN return_dict
                   ELSE dict_update(return_dict, Val(l.dict))
         IN  compose_loop(losses, weights, i + 1,
                          compose_loss + Weighted(weights[i], l.loss), d1)

compose_forward(obj) ==
    LET r == compose_loop(obj.losses, obj.weights, 1, 0, <<<<"compose loss", 0>>>>)
    IN  [compose_loss |-> r.compose_loss,
         return_dict |-> dict_set(r.return_dict, "compose loss", r.compose_loss)]

(***************************************************************************)
(* Specification of the compose loss: Init draws the sub-losses and the    *)
(* weights, ComposeInit constructs, ComposeForward evaluates forward.      *)
(***************************************************************************)
LossKeys == {"discriminator loss", "l1 loss", "compose loss"}
KeyLists == {k \in SeqsUpTo(LossKeys, 2) : Len(k) = 2 => k[1] # k[2]}

\* a sub-loss reports its own loss under each of its keys
SubLoss(l, keys) == [loss |-> l, dict |-> Some([i \in 1..Len(keys) |-> <<keys[i], l>>])]
SubLosses == {[loss |-> l, dict |-> None] : l \in 3..MaxLoss}
             \cup {SubLoss(l, k) : l \in 3..MaxLoss, k \in KeyLists}
WeightLists == {None} \cup {Some(w) : w \in SeqsUpTo(1..MaxWeight, MaxLosses)}

LossInit ==
    /\ \E losses \in SeqsUpTo(SubLosses, MaxLosses), weights \in WeightLists :
         ls = [pc |-> "new", arg_losses |-> losses, arg_weights |-> weights]
    /\ ba = Idle /\ cf = Idle /\ self = Idle /\ call = Idle /\ gan = Idle

ComposeInit ==
    /\ ls.pc = "new"
    /\ ls' = [pc |-> "constructed"] @@ compose_init(ls.arg_losses, ls.arg_weights) @@ ls
    /\ UNCHANGED <<ba, cf, self, call, gan>>

ComposeForward ==
    /\ ls.pc = "constructed"
    /\ ls.err = "ok"
    /\ ls' = [pc |-> "forwarded"] @@ compose_forward(ls) @@ ls
    /\ UNCHANGED <<ba, cf, self, call, gan>>

LossNext == ComposeInit \/ ComposeForward

SpecLoss == LossInit /\ [][LossNext]_vars

(***************************************************************************)
(* Specification of the optimization stage: Init is an Attacker as         *)
(* __init__ leaves it; the actions are the calls made on it one after the  *)
(* other: the Batch Runner over batch_optimize (base.py:227), the          *)
(* concatenation of the accumulators (base.py:230), the scoring of         *)
(* initial_latents (base.py:120) and attack() itself.                      *)
(* call.n counts the calls, call.saved holds the image files written.      *)
(***************************************************************************)
MaxOptLen == 3
MaxCalls == 3

OptimizeFns ==
    {[kind |-> "identity"], [kind |-> "drop"], [kind |-> "unpaired"],
     [kind |-> "fail_on", bad |-> 2]}

OptimizeConfigs ==
    {[DefaultConfig EXCEPT
        !.sample_latents_fn = Some("sampler"), !.optimize_fn = Some(f),
        !.final_num = Some(1), !.optimize_batch_size = Some(b),
        !.save_dir = sv[1], !.save_optimized_images = sv[2]] :
      f \in OptimizeFns, b \in 1..2, sv \in {<<None, FALSE>>, <<Some("out"), TRUE>>}}

\* latents 1..n with the labels 3, 7 in turn from either one, or with one
\* label too few
OptimizeInputs ==
    {<<[i \in 1..n |-> i], [i \in 1..n |-> IF (i + first) % 2 = 0 THEN 7 ELSE 3]>> :
       n \in 0..MaxOptLen, first \in 0..1}
    \cup {<<[i \in 1..n |-> i], [i \in 1..(n - 1) |-> 3]>> : n \in 1..MaxOptLen}

OptimizeInit ==
    /\ \E c \in OptimizeConfigs :
         self = [pc |-> "ready"] @@ Attacker_init(c, <<>>).obj
    /\ call = [pc |-> "idle", n |-> 0, saved |-> <<>>]
    /\ ba = Idle /\ cf = Idle /\ ls = Idle /\ gan = Idle

\* batch_apply(self.batch_optimize, latents, labels,
\*             batch_size=config.optimize_batch_size, description='Optimized Batch')
OptimizeBatches ==
    /\ call.n < MaxCalls
    /\ \E inp \in OptimizeInputs :
         LET bound == [kind |-> "method",
                       env |-> [obj |-> self, saved |-> call.saved,
                                optimize_calls |-> <<>>]]
             r == batch_apply_described(bound, <<Tensor(inp[1]), Tensor(inp[2])>>,
                                        Val(self.config.optimize_batch_size),
                                        Some(Text("Optimized Batch", 15)))
         IN  /\ self' = r.env.obj
             /\ call' = [pc |-> "returned", method |-> "batch_optimize",
                         n |-> call.n + 1, latents |-> inp[1], labels |-> inp[2],
                         err |-> r.err, result |-> r.val, calls |-> r.calls,
                         optimize_calls |-> r.env.optimize_calls,
                         out |-> r.out, saved |-> r.env.saved]
    /\ UNCHANGED <<ba, cf, ls, gan>>

ConcatOptimizedImages ==
    /\ call.n < MaxCalls
    /\ call' = [pc |-> "returned", method |-> "concat_optimized_images",
                n |-> call.n + 1, saved |-> call.saved]
               @@ concat_optimized_images(self)
    /\ UNCHANGED <<ba, cf, self, ls, gan>>

\* attack() on an Attacker that has been used before
AttackAgain ==
    /\ call.n < MaxCalls
    /\ \E target_list \in {<<3>>, <<7, 3>>} :
         \E r \in {attack(self, target_list, FALSE)} :
             /\ call' = [pc |-> "returned", method |-> "attack",
                         n |-> call.n + 1, saved |-> call.saved \o r.saved]
                        @@ Outcome(r)
             /\ self' = r.obj
    /\ UNCHANGED <<ba, cf, ls, gan>>

\* score functions that raise on one (candidate, label) row
FailingScoreFns ==
    {[kind |-> "partial", tab |-> [r \in ScoreRows |-> r[1]], bad |-> <<x, 3>>] :
       x \in 2..3}

\* initial_latents with a score function and one candidate per label, on
\* the Attacker as it is: the scoring of the sampled candidates goes through
\* the Batch Runner
ScoreLatents ==
    /\ call.n < MaxCalls
    /\ \E batch_size \in 1..2, labels \in {<<7, 3, 3>>}, fn \in FailingScoreFns :
         call' = [pc |-> "returned", method |-> "initial_latents",
                  n |-> call.n + 1, saved |-> call.saved,
                  args |-> [batch_size |-> batch_size, sample_num |-> Len(labels),
                            select_num |-> 1, labels |-> labels,
                            latent_score_fn |-> Some(fn)]]
                 @@ initial_latents(self.config, batch_size, Len(labels), 1,
                                    labels, Some(fn))
    /\ UNCHANGED <<ba, cf, self, ls, gan>>

OptimizeNext ==
    \/ OptimizeBatches
    \/ ConcatOptimizedImages
    \/ AttackAgain
    \/ ScoreLatents

SpecOptimize == OptimizeInit /\ [][OptimizeNext]_vars

(***************************************************************************)
(* attack/PLGMI_high/gan_trainer.py: the top-n selection of                *)
(* PlgmiGANTrainer.  The public pool holds the images 1..PoolSize, image i *)
(* in a file named i.  The cache maps a class to its directory: None when  *)
(* the directory does not exist, otherwise the set of the file names in    *)
(* it.  The cache directory is named after the dataset and the target      *)
(* model only, so runs with other arguments work on the same directories.  *)
(***************************************************************************)
PoolSize == 2
MaxClasses == 2
MaxTopN == 3
MaxRuns == 2

Pool == 1..PoolSize
Classes == 0..(MaxClasses - 1)

\* self.T(batch_imgs).result.softmax(dim=-1): the confidence of image i for
\* class c under the model whose state was loaded, one of three; no two
\* images have the same confidence for a class
Confidence(model, i, c) ==
    IF model = 1 THEN i
    ELSE IF model = 2 THEN PoolSize + 1 - i
    ELSE (i + c) % PoolSize

\* the loop over range((total_num - 1) // batch_size + 1) and torch.cat:
\* the score rows of the images, batch after batch
RECURSIVE score_batches(_, _, _)
score_batches(model, batch_size, i) ==
    IF i >= (PoolSize - 1) \div batch_size + 1 THEN <<>>
    ELSE LET start_idx == i * batch_size
             end_idx == Min(start_idx + batch_size, PoolSize)
         IN  [k \in 1..(end_idx - start_idx) |->
                [c \in Classes |-> Confidence(model, start_idx + k, c)]]
             \o score_batches(model, batch_size, i + 1)

\* torch.topk(scores, k): k beyond the number of scores raises; otherwise
\* exactly k indices whose scores are not below any score left out.  Which
\* of several equal scores is taken is not specified: choices holds every
\* index set the call may return
topk(scores, k) ==
    IF k > Len(scores) THEN [err |-> "RuntimeError", choices |-> {}]
    ELSE [err |-> "ok",
          choices |-> {S \in SUBSET (1..Len(scores)) :
                         /\ Cardinality(S) = k
                         /\ \A i \in S, j \in (1..Len(scores)) \ S :
                               scores[i] >= scores[j]}]

CountValid(dir, top_n) == ~IsNone(dir) /\ Cardinality(Val(dir)) = top_n

\* _check_select_topn: a directory with another number of items is removed
check_select_topn(cache, num_classes, top_n) ==
    [ret |-> \A c \in 0..(num_classes - 1) : CountValid(cache[c], top_n),
     cache |-> [c \in Classes |->
                  IF c < num_classes /\ ~IsNone(cache[c])
                     /\ Cardinality(Val(cache[c])) # top_n
                  THEN None ELSE cache[c]]]

\* os.makedirs(dst_dir, exist_ok=True)
made(dir) == IF IsNone(dir) THEN Some({}) ELSE dir

\* the loop over the classes: makedirs, topk, cp of every selected image
\* into the directory.  k is the same for every class, so topk raises for
\* class 0 or for none.  The result is the set of the outcomes the loop may
\* have, one for every way topk may choose.
select_topn(cache, num_classes, top_n, src_scores) ==
    LET top(c) == topk([i \in 1..Len(src_scores) |-> src_scores[i][c]], top_n)
        labels == 0..(num_classes - 1)
    IN  IF top(0).err # "ok"
        THEN {[err |-> top(0).err, cache |-> [cache EXCEPT ![0] = made(@)]]}
        ELSE {[err |-> "ok",
               cache |-> [c \in Classes |->
                            IF c < num_classes
                            THEN Some(Val(made(cache[c])) \cup indice[c])
                            ELSE cache[c]]] :
                indice \in {f \in [labels -> SUBSET Pool] :
                              \A c \in labels : f[c] \in top(c).choices}}

\* prepare_training: torch.load of the target model's state from the fixed
\* path of line 102 (checkpoint is None when no file is there, otherwise
\* the model the file holds), then the check, the selection when the check
\* fails, and the exit() of line 145.  The result is the set of the
\* outcomes the call may have.
prepare_training(cache, args, checkpoint) ==
    IF IsNone(checkpoint)
    THEN {[err |-> "FileNotFoundError", accepted |-> FALSE, cache |-> cache,
           exited |-> FALSE]}
    ELSE
    LET chk == check_select_topn(cache, args.num_classes, args.top_n)
    IN  IF chk.ret
        THEN {[err |-> "ok", accepted |-> TRUE, cache |-> chk.cache, exited |-> TRUE]}
        ELSE {[err |-> sel.err, accepted |-> FALSE, cache |-> sel.cache,
               exited |-> sel.err = "ok"] :
                sel \in select_topn(chk.cache, args.num_classes, args.top_n,
                                    score_batches(Val(checkpoint), args.batch_size, 0))}

(***************************************************************************)
(* Specification of the selection: Init is an empty cache; every run is a  *)
(* process with its own arguments on the cache the runs before left, and   *)
(* finds at the path of line 102 no file or the state of some model.       *)
(***************************************************************************)
GanArgs ==
    [num_classes : 1..MaxClasses, top_n : 1..MaxTopN, batch_size : 1..2]

Checkpoints == {None} \cup {Some(m) : m \in 1..3}

GanInit ==
    /\ gan = [pc |-> "ready", runs |-> 0, cache |-> [c \in Classes |-> None]]
    /\ ba = Idle /\ cf = Idle /\ self = Idle /\ call = Idle /\ ls = Idle

PrepareTraining ==
    /\ gan.runs < MaxRuns
    /\ \E args \in GanArgs, checkpoint \in Checkpoints :
         \E r \in prepare_training(gan.cache, args, checkpoint) :
            gan' = [pc |-> IF r.exited THEN "exited" ELSE "raised",
                    method |-> "prepare_training",
                    runs |-> gan.runs + 1, args |-> args,
                    checkpoint |-> checkpoint, prior |-> gan.cache,
                    cache |-> r.cache, accepted |-> r.accepted, err |-> r.err,
                    exited |-> r.exited]
    /\ UNCHANGED <<ba, cf, self, call, ls>>

CheckSelectTopn ==
    /\ gan.runs < MaxRuns
    /\ \E args \in GanArgs :
         LET r == check_select_topn(gan.cache, args.num_classes, args.top_n)
         IN  gan' = [pc |-> "returned", method |-> "_check_select_topn",
                     runs |-> gan.runs + 1, args |-> args,
                     checkpoint |-> None, prior |-> gan.cache,
                     cache |-> r.cache, accepted |-> r.ret, err |-> "ok",
                     exited |-> FALSE]
    /\ UNCHANGED <<ba, cf, self, call, ls>>

GanNext ==
    \/ PrepareTraining
    \/ CheckSelectTopn

SpecGan == GanInit /\ [][GanNext]_vars

(***************************************************************************)
(* Claims                                                                  *)
(***************************************************************************)

\* C1: for a row-wise fn, equal-length inputs of length L >= 1 and a batch
\* size B in 1..L+1, batch_apply returns without error the tensor that one
\* call of fn on the unchunked inputs returns.
C1_Pre ==
    /\ ba.pc = "returned"
    /\ ba.fn.kind = "rowwise"
    /\ Len(ba.inputs) >= 1
    /\ check_valid(ba.inputs) = "ok"
    /\ PyLen(ba.inputs[1]) >= 1

C1_BatchEqualsFull ==
    C1_Pre => /\ ba.err = "ok"
              /\ ba.val = CallFn(ba.fn, ba.inputs).val

\* two inputs of length 3 cut into chunks of 2 and 1, fn not constant
C1_Witness ==
    /\ C1_Pre
    /\ Len(ba.inputs) = 2
    /\ PyLen(ba.inputs[1]) = 3
    /\ ba.batch_size = 2
    /\ ba.calls = <<<<0, 2>>, <<2, 3>>>>
    /\ ba.val.rows[1] # ba.val.rows[3]

\* the config has none of the four defects that validation rejects
Accepted(c) ==
    /\ ~((c.save_optimized_images \/ c.save_final_images) /\ Falsy(c.save_dir))
    /\ ~IsNone(c.sample_latents_fn)
    /\ ~IsNone(c.optimize_fn)
    /\ ~IsNone(c.final_num)

Ordered(c) ==
    /\ Val(c.final_num) <= Val(c.optimize_num)
    /\ Val(c.optimize_num) <= Val(c.initial_num)

IsConfigError(e) ==
    e \in {"RuntimeError:save_dir", "RuntimeError:sample_latents_fn",
           "RuntimeError:optimize_fn", "RuntimeError:final_num"}

\* C3: constructing an Attacker raises a configuration error exactly when
\* the config has one of the four defects, and a config without defect
\* constructs without error.
C3_ConstructValidates ==
    cf.pc = "constructed" =>
        /\ IsConfigError(cf.err) <=> ~Accepted(cf.input)
        /\ Accepted(cf.input) => cf.err = "ok"

\* C4: for every accepted config the Attacker is constructed without an
\* exception and the config it holds has final_num <= optimize_num <=
\* initial_num.
C4_ConstructedOrdered ==
    (cf.pc = "constructed" /\ Accepted(cf.input)) =>
        /\ cf.err = "ok"
        /\ Ordered(cf.obj.config)

\* the count a field holds once the unset fields took final_num
Given(o, final_num) == IF IsNone(o) THEN Val(final_num) ELSE Val(o)

\* C5: normalising initial_num=5, optimize_num=10, final_num=20 gives 20 for
\* all three with warnings and no exception; in general final_num is kept,
\* optimize_num becomes max(optimize_num, final_num) and initial_num becomes
\* max(initial_num, new optimize_num).
C5_NormalizeRaises ==
    (cf.pc = "preprocessed" /\ Accepted(cf.input)) =>
        LET in == cf.input
            out == cf.config
            f == Val(in.final_num)
            o == Max(Given(in.optimize_num, in.final_num), f)
        IN  /\ cf.err = "ok"
            /\ out.final_num = Some(f)
            /\ out.optimize_num = Some(o)
            /\ out.initial_num = Some(Max(Given(in.initial_num, in.final_num), o))
            /\ (in.initial_num = Some(5) /\ in.optimize_num = Some(10) /\ f = 20)
                 => /\ out.initial_num = Some(20) /\ out.optimize_num = Some(20)
                    /\ out.final_num = Some(20)
                    /\ cf.warns # <<>>

C5_Witness ==
    /\ cf.pc = "preprocessed"
    /\ cf.input.initial_num = Some(5)
    /\ cf.input.optimize_num = Some(10)
    /\ cf.input.final_num = Some(20)
    /\ cf.err = "ok"
    /\ Len(cf.warns) = 2

\* the three counts are set and violate final_num <= optimize_num <= initial_num
Violating(c) ==
    /\ ~IsNone(c.initial_num) /\ ~IsNone(c.optimize_num) /\ ~IsNone(c.final_num)
    /\ ~Ordered(c)

\* C6 as stated: a violated ordering is restored by clamping the larger
\* counts down, so no count after normalisation exceeds its input value.
C6_ClampsDown ==
    (cf.pc = "preprocessed" /\ cf.err = "ok" /\ Violating(cf.input)) =>
        /\ Val(cf.config.initial_num) <= Val(cf.input.initial_num)
        /\ Val(cf.config.optimize_num) <= Val(cf.input.optimize_num)
        /\ Val(cf.config.final_num) <= Val(cf.input.final_num)

\* C6 amended: a violated ordering is restored by raising the smaller counts
\* up: after normalisation the ordering holds, every count is greater than
\* or equal to its input value, final_num is unchanged and some count grew.
C6_RaisesUp ==
    (cf.pc = "preprocessed" /\ cf.err = "ok" /\ Violating(cf.input)) =>
        /\ Ordered(cf.config)
        /\ Val(cf.config.initial_num) >= Val(cf.input.initial_num)
        /\ Val(cf.config.optimize_num) >= Val(cf.input.optimize_num)
        /\ cf.config.final_num = cf.input.final_num
        /\ \/ Val(cf.config.initial_num) > Val(cf.input.initial_num)
           \/ Val(cf.config.optimize_num) > Val(cf.input.optimize_num)

\* final <= optimize holds on input, optimize > initial: only initial_num grows
C6_Witness ==
    /\ cf.pc = "preprocessed" /\ cf.err = "ok" /\ Violating(cf.input)
    /\ cf.input.final_num = Some(1)
    /\ cf.input.optimize_num = Some(2)
    /\ cf.input.initial_num = Some(0)
    /\ cf.config.initial_num = Some(2)

\* C2: attack(target_labels) with a non-empty target list on an Attacker
\* whose config passed validation runs to Done without an error and runs
\* the final evaluation exactly once.
C2_AttackCompletes ==
    (call.pc = "returned" /\ call.method = "attack" /\ call.args.target_list # <<>>) =>
        /\ call.err = "ok"
        /\ call.phases # <<>> /\ call.phases[Len(call.phases)] = "Done"
        /\ Len(SelectSeq(call.evals, LAMBDA d : d = "Final Image Evaluation")) = 1

\* C7: initial_latents with no score function, or with sample_num equal to
\* select_num, returns for every label the output of one sampler call for
\* select_num latents and invokes neither the score function nor the Batch
\* Runner.
C7_SkipsScoring ==
    (/\ call.pc = "returned" /\ call.method = "initial_latents"
     /\ call.args.labels # <<>>
     /\ SkipsScoring(call.args.latent_score_fn, call.args.sample_num,
                     call.args.select_num)) =>
        /\ call.err = "ok"
        /\ call.score_calls = <<>>
        /\ call.batch_applies = 0
        /\ call.sampler_calls = <<call.args.select_num>>
        /\ call.result = PyDict([i \in 1..Len(call.args.labels) |->
                                   <<call.args.labels[i],
                                     Tensor(Sample(0, call.args.select_num))>>])

Range(seq) == {seq[i] : i \in 1..Len(seq)}

\* the rows kept for label are select_num distinct candidates, each scoring
\* at least as high as every candidate that was dropped
TopFor(rows, candidates, fn, label, select_num) ==
    /\ Len(rows) = select_num
    /\ Cardinality(Range(rows)) = select_num
    /\ Range(rows) \subseteq Range(candidates)
    /\ \A k \in Range(rows), d \in Range(candidates) \ Range(rows) :
          fn.tab[<<k, label>>] >= fn.tab[<<d, label>>]

\* C8: with a score function and sample_num > select_num, initial_latents
\* returns for each requested label the select_num highest-scoring
\* candidates for that label.
C8_KeepsTopScored ==
    (/\ call.pc = "returned" /\ call.method = "initial_latents"
     /\ call.args.labels # <<>>
     /\ ~IsNone(call.args.latent_score_fn)
     /\ call.args.sample_num > call.args.select_num) =>
        /\ call.err = "ok"
        /\ call.result.kind = "dict"
        /\ \A l \in Range(call.args.labels) :
             \E i \in 1..Len(call.result.items) :
                /\ call.result.items[i][1] = l
                /\ TopFor(call.result.items[i][2].rows,
                          Sample(0, call.args.sample_num),
                          Val(call.args.latent_score_fn), l, call.args.select_num)

\* C9: final_selection with final_num = len(images) returns the pair
\* (images, labels) unchanged and does not invoke the score function.
C9_FinalSelectionIdentity ==
    (/\ call.pc = "returned" /\ call.method = "final_selection"
     /\ Len(call.args.images) = Len(call.args.labels)
     /\ call.args.final_num = Len(call.args.images)) =>
        /\ call.err = "ok"
        /\ call.score_calls = <<>>
        /\ call.result = PyTuple(<<Tensor(call.args.images), Tensor(call.args.labels)>>)

Lookup(d, k) == d[CHOOSE i \in 1..Len(d) : d[i][1] = k][2]
DictKeys(d) == {d[i][1] : i \in 1..Len(d)}

RECURSIVE WeightedSum(_, _)
WeightedSum(losses, weights) ==
    IF losses = <<>> THEN 0
    ELSE Head(weights) * Head(losses).loss + WeightedSum(Tail(losses), Tail(weights))

\* the sub-losses of the composed loss that report the key k
Reporting(k) ==
    {i \in 1..Len(ls.losses) :
        ~IsNone(ls.losses[i].dict) /\ k \in DictKeys(Val(ls.losses[i].dict))}

ReportedKeys == {k \in LossKeys : Reporting(k) # {}}

C10_Total ==
    /\ ls.compose_loss = WeightedSum(ls.losses, ls.weights)
    /\ Lookup(ls.return_dict, "compose loss") = ls.compose_loss
    /\ (ls.weights = <<1, 2>> /\ ls.losses[1].loss = 3 /\ ls.losses[2].loss = 4)
         => ls.compose_loss = 11

\* C10 as stated: forward returns the weighted sum, reports it under
\* 'compose loss' and reports every diagnostic entry of every sub-loss
\* under its key.
C10_ReportsEveryEntry ==
    ls.pc = "forwarded" =>
        /\ C10_Total
        /\ \A k \in ReportedKeys : \A i \in Reporting(k) :
              Lookup(ls.return_dict, k) = Lookup(Val(ls.losses[i].dict), k)

\* C10 amended: forward returns the weighted sum and reports it under
\* 'compose loss'; the mapping holds exactly 'compose loss' and the keys the
\* sub-losses report, and a reported key other than 'compose loss' holds the
\* entry of the last sub-loss that reports it.
C10_ReportsLastEntry ==
    ls.pc = "forwarded" =>
        /\ C10_Total
        /\ DictKeys(ls.return_dict) = ReportedKeys \cup {"compose loss"}
        /\ Len(ls.return_dict) = Cardinality(DictKeys(ls.return_dict))
        /\ \A k \in ReportedKeys \ {"compose loss"} :
              LET last == CHOOSE i \in Reporting(k) : \A j \in Reporting(k) : j <= i
              IN  Lookup(ls.return_dict, k) = Lookup(Val(ls.losses[last].dict), k)

\* weights [1, 2], sub-losses 3 and 4: both report 'discriminator loss' and
\* the first also 'l1 loss'; the total is 11
C10_Witness ==
    /\ ls.pc = "forwarded"
    /\ ls.weights = <<1, 2>>
    /\ ls.losses = <<SubLoss(3, <<"discriminator loss", "l1 loss">>),
                     SubLoss(4, <<"discriminator loss">>)>>
    /\ ls.compose_loss = 11
    /\ ls.return_dict = <<<<"compose loss", 11>>, <<"discriminator loss", 4>>,
                          <<"l1 loss", 3>>>>

(***************************************************************************)
(* C11, C13: the validation and the chunks of batch_apply                  *)
(***************************************************************************)
Mismatched(inputs) ==
    \/ \E j \in 1..Len(inputs) : inputs[j].kind # "tensor"
    \/ \E j, k \in 1..Len(inputs) : Len(inputs[j].rows) # Len(inputs[k].rows)

\* C11: when an input of batch_apply has no length or two inputs differ in
\* length, the call raises the RuntimeError of _check_valid and fn has been
\* called on no chunk
C11_MismatchRaisesBeforeCall ==
    (ba.pc = "returned" /\ Mismatched(ba.inputs))
        => /\ ba.err \in {"RuntimeError:nolen", "RuntimeError:lengths"}
           /\ ba.calls = <<>>

\* C11 witness: inputs of length 3 and 2 are rejected with no call made
C11_Witness ==
    /\ ba.pc = "returned"
    /\ Len(ba.inputs) = 2
    /\ ba.inputs[1].kind = "tensor" /\ ba.inputs[2].kind = "tensor"
    /\ Len(ba.inputs[1].rows) = 3 /\ Len(ba.inputs[2].rows) = 2
    /\ ba.fn.kind = "rowwise"
    /\ ba.err = "RuntimeError:lengths"
    /\ ba.calls = <<>>

C13_Pre ==
    /\ ba.pc = "returned"
    /\ Len(ba.inputs) >= 1
    /\ ~Mismatched(ba.inputs)
    /\ ba.fn.kind = "rowwise"

\* C13: for inputs of length L and batch size B, fn is called ceil(L/B)
\* times, call k on the slice [(k-1)*B, min(L, k*B)); every index of 0..L-1
\* lies in exactly one slice, no slice is longer than B and only the last
\* may be shorter
C13_ChunksPartition ==
    C13_Pre =>
        LET L == Len(ba.inputs[1].rows)
            B == ba.batch_size
            n == Len(ba.calls)
            size(k) == ba.calls[k][2] - ba.calls[k][1]
        IN  /\ n * B >= L /\ (n > 0 => (n - 1) * B < L)
            /\ \A k \in 1..n : ba.calls[k] = <<(k - 1) * B, Min(L, k * B)>>
            /\ \A i \in 0..(L - 1) :
                 Cardinality({k \in 1..n : ba.calls[k][1] <= i /\ i < ba.calls[k][2]}) = 1
            /\ \A k \in 1..n : size(k) <= B /\ (k < n => size(k) = B)

\* C13 witness: one input of length 3 with batch size 2 gives the calls
\* [0, 2) and [2, 3), the last one shorter
C13_Witness ==
    /\ C13_Pre
    /\ Len(ba.inputs) = 1
    /\ ba.batch_size = 2
    /\ ba.calls = <<<<0, 2>>, <<2, 3>>>>
    /\ ba.err = "ok"

(***************************************************************************)
(* C17, C18: the accumulators of the optimization stage                    *)
(***************************************************************************)
IsPrefix(s, t) == Len(s) <= Len(t) /\ SubSeq(t, 1, Len(s)) = s

\* chunk k (from 1) of the sequence x cut by batch size B
ChunkOf(x, k, B) == SubSeq(x, (k - 1) * B + 1, Min(Len(x), k * B))

\* what the optimization routine of the Attacker returns for chunk k of the
\* input of the call just made
ChunkResult(k) ==
    LET B == Val(self'.config.optimize_batch_size)
    IN  OptimizeFn(Val(self'.config.optimize_fn),
                   Tensor(ChunkOf(call'.latents, k, B)),
                   Tensor(ChunkOf(call'.labels, k, B)))

Paired ==
    /\ Len(self.optimized_images) = Len(self.optimized_labels)
    /\ \A i \in 1..Len(self.optimized_images) :
         Len(self.optimized_images[i].rows) = Len(self.optimized_labels[i].rows)

GrowOnly ==
    /\ IsPrefix(self.optimized_images, self'.optimized_images)
    /\ IsPrefix(self.optimized_labels, self'.optimized_labels)

\* the step is a run of the Batch Runner over batch_optimize that returned
OptimizedAll ==
    /\ call'.n = call.n + 1
    /\ call'.method = "batch_optimize"
    /\ call'.err = "ok"

OncePerChunk ==
    OptimizedAll =>
        LET B == Val(self'.config.optimize_batch_size)
            n == Len(call'.calls)
        IN  /\ Len(call'.optimize_calls) = n
            /\ \A k \in 1..n :
                 call'.optimize_calls[k] =
                    <<ChunkOf(call'.latents, k, B), ChunkOf(call'.labels, k, B)>>
            /\ self'.optimized_images =
                 self.optimized_images \o [k \in 1..n |-> ChunkResult(k).images]
            /\ self'.optimized_labels =
                 self.optimized_labels \o [k \in 1..n |-> ChunkResult(k).labels]

ConcatAll ==
    (call'.n = call.n + 1 /\ call'.method = "concat_optimized_images" /\ call'.err = "ok")
        => /\ call'.result.items[1].rows = Cat(self.optimized_images)
           /\ call'.result.items[2].rows = Cat(self.optimized_labels)

\* C17: a run over batch_optimize calls the optimization routine once per
\* chunk and appends each (images, labels) it returns; the two accumulators
\* always have as many entries, entry i as long in one as in the other; no
\* call, attack() included, removes an entry; the concatenation is that of
\* all entries, so it holds the images of every earlier run
C17_Accumulates ==
    /\ []Paired
    /\ [][GrowOnly /\ OncePerChunk /\ ConcatAll]_vars

\* C17 witness: two runs of one chunk each, latents 1, 2, then the
\* concatenation, which holds the images of both runs
C17_Witness ==
    /\ call.n = 3
    /\ call.method = "concat_optimized_images"
    /\ call.err = "ok"
    /\ Len(self.optimized_images) = 2
    /\ call.result.items[1].rows = <<1, 2, 1, 2>>
    /\ call.result.items[2].rows = <<3, 7, 7, 3>>
    /\ call.saved # <<>>

\* the first chunk of the call just made on which the optimization fails
FailingChunks ==
    {k \in 1..Len(call'.latents) : ChunkResult(k).err # "ok"}

FirstFailing == CHOOSE k \in FailingChunks : \A j \in FailingChunks : k <= j

\* the step is a run of the Batch Runner over batch_optimize in which the
\* optimization routine fails on a chunk
OptimizeFails ==
    /\ call'.n = call.n + 1
    /\ call'.method = "batch_optimize"
    /\ Len(call'.latents) = Len(call'.labels)
    /\ FailingChunks # {}

\* the run raises the routine's error, the routine has been called on the
\* chunks 1..k once each and on none after k, and the accumulators hold the
\* results of the chunks 1..k-1 appended to what they held before
OptimizeFailurePropagates ==
    OptimizeFails =>
        LET k == FirstFailing
            B == Val(self'.config.optimize_batch_size)
        IN  /\ call'.err = ChunkResult(k).err
            /\ call'.calls = [j \in 1..k |-> <<(j - 1) * B, Min(Len(call'.latents), j * B)>>]
            /\ Len(call'.optimize_calls) = k
            /\ self'.optimized_images =
                 self.optimized_images \o [j \in 1..(k - 1) |-> ChunkResult(j).images]
            /\ self'.optimized_labels =
                 self.optimized_labels \o [j \in 1..(k - 1) |-> ChunkResult(j).labels]

\* the chunks of the scoring call just made that hold the row on which the
\* score function raises; the candidates are those of the first sampler call
ScoreFailingChunks ==
    LET a == call'.args
        raw == Sample(0, a.sample_num)
    IN  {k \in 1..a.sample_num :
           \E i \in ((k - 1) * a.batch_size + 1)..Min(a.sample_num, k * a.batch_size) :
              <<raw[i], a.labels[i]>> = a.latent_score_fn[1].bad}

\* the step is a call of initial_latents in which the score function fails
\* on a chunk
ScoreFails ==
    /\ call'.n = call.n + 1
    /\ call'.method = "initial_latents"
    /\ call'.args.latent_score_fn # None
    /\ call'.args.sample_num > call'.args.select_num
    /\ Len(call'.args.labels) = call'.args.sample_num
    /\ ScoreFailingChunks # {}

\* the call raises the score function's error, the function has been called
\* on the chunks 1..k once each and on none after k, through one run of the
\* Batch Runner, and the accumulators are as they were
ScoreFailurePropagates ==
    ScoreFails =>
        LET k == Least(ScoreFailingChunks)
            a == call'.args
        IN  /\ call'.err = "ValueError"
            /\ call'.score_calls =
                 [j \in 1..k |-> <<(j - 1) * a.batch_size,
                                   Min(a.sample_num, j * a.batch_size)>>]
            /\ call'.batch_applies = 1
            /\ self'.optimized_images = self.optimized_images
            /\ self'.optimized_labels = self.optimized_labels

\* a call of attack() that raises has entered the phases up to the one it
\* raised in and none after it: when that phase is before the final
\* selection, no final selection and no final evaluation has run, and the
\* accumulators hold at least what they held before
AttackAborts ==
    (/\ call'.n = call.n + 1 /\ call'.method = "attack" /\ call'.err # "ok") =>
        LET p == call'.phases
        IN  /\ IsPrefix(p, <<"Init", "InitialSelect", "Optimize", "FinalSelect", "Evaluate">>)
            /\ p # <<>>
            /\ p[Len(p)] \in {"Init", "InitialSelect", "Optimize"} =>
                 /\ \A i \in 1..Len(call'.out) :
                       call'.out[i] # [text |-> "execute final selection"]
                 /\ \A i \in 1..Len(call'.evals) :
                       call'.evals[i] # "Final Image Evaluation"
                 /\ call'.metric_calls = <<>>
            /\ GrowOnly

\* C18: when the score function or the optimization routine raises on chunk
\* k, the call raises that error after calls on the chunks 1..k only, each
\* once; what the chunks before k appended to the accumulators stays; and a
\* call of attack() that raises runs no phase after the one it raised in,
\* so neither the final selection nor the final evaluation
C18_FailurePropagates ==
    [][OptimizeFailurePropagates /\ ScoreFailurePropagates /\ AttackAborts]_vars

\* C18 witness: three latents in chunks of one, the routine raises on the
\* second: two calls made, the image of the first chunk kept, no third call
C18_Witness ==
    /\ call.pc = "returned"
    /\ call.method = "batch_optimize"
    /\ call.latents = <<1, 2, 3>>
    /\ call.err = "RuntimeError:optimize"
    /\ call.calls = <<<<0, 1>>, <<1, 2>>>>
    /\ self.optimized_images = <<Tensor(<<1>>)>>

(***************************************************************************)
(* C12, C14, C15, C16, C19: the methods of the Attacker                    *)
(***************************************************************************)
\* C12: every run of attack() goes through the phases Init, InitialSelect,
\* Optimize, FinalSelect, Evaluate, Done in this order, none skipped and
\* none repeated
C12_PhasesInOrder ==
    (call.pc = "returned" /\ call.method = "attack" /\ call.args.target_list # <<>>) =>
        call.phases = <<"Init", "InitialSelect", "Optimize", "FinalSelect",
                        "Evaluate", "Done">>

\* the rows of tensor whose label is l, in their order
RowsOf(tensor, labels, l) ==
    LET keep == SelectSeq([i \in 1..Len(labels) |-> i], LAMBDA i : labels[i] = l)
    IN  [k \in 1..Len(keep) |-> tensor[keep[k]]]

\* C14: the pair (tensor, labels) flattened from a candidate set has its
\* labels in ascending order whatever the order of the keys, row i of the
\* tensor belongs to labels[i], and the rows of one label are the
\* candidates of that label in their order
C14_FlattenedAscending ==
    (/\ call.pc = "returned" /\ call.method = "concat_tensor_labels"
     /\ LET d == call.args.target_dict.items
        IN  d # <<>> /\ \A i, j \in 1..Len(d) : d[i][1] = d[j][1] => i = j) =>
        /\ call.err = "ok"
        /\ call.result.kind = "tuple"
        /\ LET d == call.args.target_dict.items
               tensor == call.result.items[1].rows
               labels == call.result.items[2].rows
           IN  /\ Len(tensor) = Len(labels)
               /\ \A i, j \in 1..Len(labels) : i < j => labels[i] <= labels[j]
               /\ \A k \in 1..Len(d) : RowsOf(tensor, labels, d[k][1]) = d[k][2].rows

FinalSelectionScored ==
    /\ call.pc = "returned" /\ call.method = "final_selection"
    /\ ~IsNone(call.args.image_score_fn)
    /\ Len(call.args.images) = Len(call.args.labels)
    /\ call.args.final_num # Len(call.args.images)

CountOf(labels, l) == Cardinality({i \in 1..Len(labels) : labels[i] = l})

\* C15: final_selection with a score function and final_num # len(images),
\* every label present having at least final_num images, returns for each
\* label present the final_num best-scoring images of that label, paired
\* with the label
C15_FinalKeepsTopScored ==
    (/\ FinalSelectionScored
     /\ call.args.images # <<>>
     /\ call.args.final_num >= 1
     /\ Cardinality(Range(call.args.images)) = Len(call.args.images)
     /\ \A l \in Range(call.args.labels) :
          CountOf(call.args.labels, l) >= call.args.final_num) =>
        /\ call.err = "ok"
        /\ call.result.kind = "tuple"
        /\ \A l \in Range(call.args.labels) :
             TopFor(RowsOf(call.result.items[1].rows, call.result.items[2].rows, l),
                    RowsOf(call.args.images, call.args.labels, l),
                    Val(call.args.image_score_fn), l, call.args.final_num)

\* C16: final_selection with a score function, when some label present has
\* fewer than final_num images, does not fail and keeps every image of such
\* a label
C16_FinalClamps ==
    (/\ FinalSelectionScored
     /\ \E l \in Range(call.args.labels) :
          CountOf(call.args.labels, l) < call.args.final_num) =>
        /\ call.err = "ok"
        /\ call.result.kind = "tuple"
        /\ \A l \in Range(call.args.labels) :
             CountOf(call.args.labels, l) < call.args.final_num =>
                Range(RowsOf(call.result.items[1].rows, call.result.items[2].rows, l))
                  = Range(RowsOf(call.args.images, call.args.labels, l))

\* report holds every key of items once, in the order of the keys' first
\* entries, each with the value of the key's last entry
IsMerged(report, items) ==
    LET first(k) == CHOOSE i \in 1..Len(items) :
                      items[i][1] = k /\ \A j \in 1..(i - 1) : items[j][1] # k
        last(k) == CHOOSE i \in 1..Len(items) :
                      items[i][1] = k /\ \A j \in (i + 1)..Len(items) : items[j][1] # k
    IN  /\ DictKeys(report) = DictKeys(items)
        /\ \A a, b \in 1..Len(report) :
             a < b => first(report[a][1]) < first(report[b][1])
        /\ \A a \in 1..Len(report) : report[a][2] = items[last(report[a][1])][2]

\* C19: _evaluation calls every metric once in registration order, prints
\* the separator line with the description, the merged report and a closing
\* separator line, and returns without an error
C19_EvaluationReports ==
    (call.pc = "returned" /\ call.method = "_evaluation") =>
        /\ call.err = "ok"
        /\ call.metric_calls = [i \in 1..Len(self.metrics) |-> i]
        /\ Len(call.out) = 3
        /\ call.out[1].content = "Final Image Evaluation"
        /\ IsMerged(call.out[2].yaml, metric_items(self.metrics))
        /\ call.out[3] = [dashes |-> 60]

(***************************************************************************)
(* C20: the cache of the top-n selection                                   *)
(***************************************************************************)
\* the top_n images of highest confidence for class c under the model the
\* run loaded
TopImages(c) ==
    CHOOSE S \in SUBSET Pool :
        /\ Cardinality(S) = gan.args.top_n
        /\ \A i \in S, j \in Pool \ S :
              Confidence(gan.checkpoint[1], i, c) > Confidence(gan.checkpoint[1], j, c)

\* C20: a run of the selection step accepts the cache and leaves it as it
\* is exactly when every class directory 0..num_classes-1 existed with
\* exactly top_n items; after every other run that completes, every class
\* directory exists and holds exactly the top_n images of highest
\* confidence for its class and nothing else
C20_CacheExact ==
    (/\ gan.pc = "exited" /\ gan.method = "prepare_training" /\ gan.err = "ok") =>
        LET valid == \A c \in 0..(gan.args.num_classes - 1) :
                        /\ gan.prior[c] # None
                        /\ Cardinality(gan.prior[c][1]) = gan.args.top_n
        IN  /\ gan.accepted <=> valid
            /\ gan.accepted => gan.cache = gan.prior
            /\ ~gan.accepted =>
                 \A c \in 0..(gan.args.num_classes - 1) :
                    gan.cache[c] = <<TopImages(c)>>

====
